---- MODULE Spec2Model ----
(***************************************************************************)
(* A model of lemur.common.utils: key generation, X.509 signature          *)
(* checking, self-signed classification, authority-key extraction and      *)
(* fingerprint matching.  The functions are stateless; a state of the      *)
(* model is the last call made, its arguments, its outcome and the calls   *)
(* it made into the cryptography library.                                  *)
(***************************************************************************)
EXTENDS Integers, Sequences, FiniteSets, TLC

VARIABLES
    op,        \* the function called last ("none" before any call)
    args,      \* its arguments
    result,    \* its outcome: a returned value or a raised exception
    inner,     \* is_selfsigned: the outcome of its check_cert_signature call
    libcalls,  \* the key generations and verifications the call performed
    stored     \* the caller's list of stored certificate records, after the call

vars == <<op, args, result, inner, libcalls, stored>>

----------------------------------------------------------------------------
(* Bounds of the model.                                                    *)

\* distinct keys per key family
NumKeys == 2
\* longest candidate list given to find_matching_certificates_by_hash
MaxCandidates == 3
\* longest authority key identifier, in bytes
MaxKeyIdLen == 2

----------------------------------------------------------------------------
(* Python values and outcomes.                                             *)

Return(v) == [kind |-> "return", value |-> v]
Raise(t, m) == [kind |-> "raise", value |-> [type |-> t, message |-> m]]
None == [type |-> "NoneType"]
Bool(b) == [type |-> "bool", v |-> b]
NoOutcome == [kind |-> "none", value |-> None]

Raised(r, t) == r.kind = "raise" /\ r.value.type = t
Returned(r) == r.kind = "return"

----------------------------------------------------------------------------
(* Strings are sequences of one-character strings.                         *)

\* sub in s
Contains(sub, s) ==
    \E i \in 1..(Len(s) - Len(sub) + 1) : SubSeq(s, i, i + Len(sub) - 1) = sub

\* x in lst
InList(x, lst) == \E i \in 1..Len(lst) : lst[i] = x

Digits == <<"0","1","2","3","4","5","6","7","8","9">>

DigitVal(c) == (CHOOSE i \in 1..10 : Digits[i] = c) - 1

RECURSIVE DecimalValue(_)
DecimalValue(s) ==
    IF s = <<>> THEN 0
    ELSE 10 * DecimalValue(SubSeq(s, 1, Len(s) - 1)) + DigitVal(s[Len(s)])

\* int(s) for a string of decimal digits; anything else is a ValueError
PyInt(s) ==
    IF s # <<>> /\ \A i \in 1..Len(s) : InList(s[i], Digits)
    THEN [ok |-> TRUE, value |-> DecimalValue(s)]
    ELSE [ok |-> FALSE, value |-> 0]

\* sep.join(lst)
RECURSIVE PyJoin(_, _)
PyJoin(sep, lst) ==
    IF lst = <<>> THEN <<>>
    ELSE IF Len(lst) = 1 THEN lst[1]
    ELSE lst[1] \o sep \o PyJoin(sep, Tail(lst))

----------------------------------------------------------------------------
(* Key generation.                                                         *)

\* lemur.constants.CERTIFICATE_KEY_TYPES, as the docstring lists it
CERTIFICATE_KEY_TYPES ==
    << <<"R","S","A","2","0","4","8">>,
       <<"R","S","A","4","0","9","6">>,
       <<"E","C","C","P","R","I","M","E","1","9","2","V","1">>,
       <<"E","C","C","P","R","I","M","E","2","5","6","V","1">>,
       <<"E","C","C","S","E","C","P","1","9","2","R","1">>,
       <<"E","C","C","S","E","C","P","2","2","4","R","1">>,
       <<"E","C","C","S","E","C","P","2","5","6","R","1">>,
       <<"E","C","C","S","E","C","P","3","8","4","R","1">>,
       <<"E","C","C","S","E","C","P","5","2","1","R","1">>,
       <<"E","C","C","S","E","C","P","2","5","6","K","1">>,
       <<"E","C","C","S","E","C","T","1","6","3","K","1">>,
       <<"E","C","C","S","E","C","T","2","3","3","K","1">>,
       <<"E","C","C","S","E","C","T","2","8","3","K","1">>,
       <<"E","C","C","S","E","C","T","4","0","9","K","1">>,
       <<"E","C","C","S","E","C","T","5","7","1","K","1">>,
       <<"E","C","C","S","E","C","T","1","6","3","R","2">>,
       <<"E","C","C","S","E","C","T","2","3","3","R","1">>,
       <<"E","C","C","S","E","C","T","2","8","3","R","1">>,
       <<"E","C","C","S","E","C","T","4","0","9","R","1">>,
       <<"E","C","C","S","E","C","T","5","7","1","R","2">> >>

\* key_type -> curve class
CURVE_TYPES ==
    { <<<<"E","C","C","P","R","I","M","E","1","9","2","V","1">>, "SECP192R1">>,
      <<<<"E","C","C","P","R","I","M","E","2","5","6","V","1">>, "SECP256R1">>,
      <<<<"E","C","C","S","E","C","P","1","9","2","R","1">>, "SECP192R1">>,
      <<<<"E","C","C","S","E","C","P","2","2","4","R","1">>, "SECP224R1">>,
      <<<<"E","C","C","S","E","C","P","2","5","6","R","1">>, "SECP256R1">>,
      <<<<"E","C","C","S","E","C","P","3","8","4","R","1">>, "SECP384R1">>,
      <<<<"E","C","C","S","E","C","P","5","2","1","R","1">>, "SECP521R1">>,
      <<<<"E","C","C","S","E","C","P","2","5","6","K","1">>, "SECP256K1">>,
      <<<<"E","C","C","S","E","C","T","1","6","3","K","1">>, "SECT163K1">>,
      <<<<"E","C","C","S","E","C","T","2","3","3","K","1">>, "SECT233K1">>,
      <<<<"E","C","C","S","E","C","T","2","8","3","K","1">>, "SECT283K1">>,
      <<<<"E","C","C","S","E","C","T","4","0","9","K","1">>, "SECT409K1">>,
      <<<<"E","C","C","S","E","C","T","5","7","1","K","1">>, "SECT571K1">>,
      <<<<"E","C","C","S","E","C","T","1","6","3","R","2">>, "SECT163R2">>,
      <<<<"E","C","C","S","E","C","T","2","3","3","R","1">>, "SECT233R1">>,
      <<<<"E","C","C","S","E","C","T","2","8","3","R","1">>, "SECT283R1">>,
      <<<<"E","C","C","S","E","C","T","4","0","9","R","1">>, "SECT409R1">>,
      <<<<"E","C","C","S","E","C","T","5","7","1","R","2">>, "SECT571R1">> }

HasCurve(key_type) == \E p \in CURVE_TYPES : p[1] = key_type
CurveOf(key_type) == (CHOOSE p \in CURVE_TYPES : p[1] = key_type)[2]

\* key types outside the catalog that callers may pass
OtherKeyTypes ==
    { <<"B","O","G","U","S">>,
      <<"R","S","A","1","0","2","4">>,
      <<"E","C","C","S","E","C","T","5","7","1","R","1">>,
      <<"D","S","A","2","0","4","8">>,
      <<"r","s","a","2","0","4","8">>,
      <<"R","S","A">>,
      <<>> }

KeyTypes == {CERTIFICATE_KEY_TYPES[i] : i \in 1..Len(CERTIFICATE_KEY_TYPES)} \cup OtherKeyTypes

\* the outcomes of the random source: which key of its family is generated
Randomness == 1..NumKeys

\* rsa.generate_private_key(public_exponent, key_size, backend)
rsa_generate_private_key(public_exponent, key_size, rnd) ==
    [type |-> "RSAPrivateKey", public_exponent |-> public_exponent,
     key_size |-> key_size, secret |-> rnd]

\* ec.generate_private_key(curve, backend)
ec_generate_private_key(curve, rnd) ==
    [type |-> "EllipticCurvePrivateKey", curve |-> curve, secret |-> rnd]

InvalidKeyTypeMessage(key_type) ==
    <<"I","n","v","a","l","i","d"," ","k","e","y"," ","t","y","p","e",":"," ">>
    \o key_type
    \o <<"."," ","S","u","p","p","o","r","t","e","d"," ","k","e","y"," ","t","y","p","e","s",":"," ">>
    \o PyJoin(<<",">>, CERTIFICATE_KEY_TYPES)

\* 'RSA' in key_type
IsRSAType(key_type) == Contains(<<"R","S","A">>, key_type)

\* a wrong family test: only the SEC-named curves are taken for ECC
IsECCType_sec_only(key_type) == Contains(<<"E","C","C","S","E","C">>, key_type)

\* 'ECC' in key_type
IsECCType(key_type) == Contains(<<"E","C","C">>, key_type)

\* a wrong slice: one character too far
KeySizeSuffix_off_by_one(key_type) == SubSeq(key_type, 5, Len(key_type))

\* key_type[3:]
KeySizeSuffix(key_type) == SubSeq(key_type, 4, Len(key_type))

\* a wrong catalog test: every key type is let through
InCatalog_unchecked(key_type) == TRUE

\* key_type in CERTIFICATE_KEY_TYPES
InCatalog(key_type) == InList(key_type, CERTIFICATE_KEY_TYPES)

generate_private_key(key_type, rnd) ==
    IF ~InCatalog(key_type)
    THEN [outcome |-> Raise("Exception", InvalidKeyTypeMessage(key_type)),
          libcalls |-> <<>>]
    ELSE IF IsRSAType(key_type)
    THEN LET key_size == PyInt(KeySizeSuffix(key_type)) IN
         IF ~key_size.ok
         THEN [outcome |-> Raise("ValueError", <<>>), libcalls |-> <<>>]
         ELSE [outcome |-> Return(rsa_generate_private_key(65537, key_size.value, rnd)),
               libcalls |-> <<"rsa.generate_private_key">>]
    ELSE IF IsECCType(key_type)
    THEN IF ~HasCurve(key_type)
         THEN [outcome |-> Raise("KeyError", key_type), libcalls |-> <<>>]
         ELSE [outcome |-> Return(ec_generate_private_key(CurveOf(key_type), rnd)),
               libcalls |-> <<"ec.generate_private_key">>]
    ELSE [outcome |-> Return(None), libcalls |-> <<>>]

----------------------------------------------------------------------------
(* The cryptography library: keys, signatures, certificates.               *)

KeyFamilies == {"RSAPublicKey", "EllipticCurvePublicKey", "DSAPublicKey"}

PublicKeys == [type : KeyFamilies, id : 1..NumKeys]

\* the signature schemes a private key of each family can sign with
SchemesOf(family) ==
    IF family = "RSAPublicKey" THEN {"PKCS1v15", "PSS"}
    ELSE IF family = "EllipticCurvePublicKey" THEN {"ECDSA"}
    ELSE {"DSA"}

\* A signature value: made with the private key of `signer` under `scheme`,
\* over the certificate's to-be-signed bytes ("tbs") or over other bytes.
Signatures ==
    {sg \in [signer : PublicKeys, scheme : {"PKCS1v15", "PSS", "ECDSA", "DSA"},
             over : {"tbs", "other"}] : sg.scheme \in SchemesOf(sg.signer.type)}

SignatureAlgorithmOIDs ==
    {"sha256WithRSAEncryption", "RSASSA_PSS", "ecdsa-with-SHA256", "dsa-with-sha256"}

\* the scheme an OID declares
SchemeOfOID(oid) ==
    IF oid = "sha256WithRSAEncryption" THEN "PKCS1v15"
    ELSE IF oid = "RSASSA_PSS" THEN "PSS"
    ELSE IF oid = "ecdsa-with-SHA256" THEN "ECDSA"
    ELSE "DSA"

\* x509.Certificate.signature_hash_algorithm: the hash the OID declares, a
\* hashes.HashAlgorithm instance for every certificate x509 decodes (ec.ECDSA
\* is a signature algorithm class, not a hash class)
HashOfOID(oid) == [type |-> "HashAlgorithm", name |-> "sha256"]

\* isinstance(value, cls)
IsInstance(value, cls) == value.type = cls

NoAKI == [present |-> FALSE, has_key_identifier |-> FALSE, key_identifier |-> <<>>]

\* the encoded form of a certificate
DER(public_key, oid, signature, aki) == <<public_key, oid, signature, aki>>

\* what x509 decoding yields for an encoded certificate
DecodeCertificate(der) ==
    [public_key |-> der[1],
     signature_algorithm_oid |-> der[2],
     signature_hash_algorithm |-> HashOfOID(der[2]),
     signature |-> der[3],
     tbs_certificate_bytes |-> "tbs",
     aki |-> der[4]]

EncodeCertificate(cert) ==
    DER(cert.public_key, cert.signature_algorithm_oid, cert.signature, cert.aki)

\* the certificates the signature functions are called with
SignedCertificates ==
    {DecodeCertificate(DER(k, oid, sg, NoAKI)) :
        k \in PublicKeys, oid \in SignatureAlgorithmOIDs, sg \in Signatures}

\* RSAPublicKey.verify(signature, data, padding, algorithm)
rsa_verify(key, signature, data, padder, algorithm) ==
    IF ~IsInstance(algorithm, "HashAlgorithm") THEN Raise("TypeError", <<>>)
    ELSE IF /\ signature.signer = key
            /\ signature.scheme = padder
            /\ signature.over = data
    THEN Return(None)
    ELSE Raise("InvalidSignature", <<>>)

\* EllipticCurvePublicKey.verify(signature, data, signature_algorithm)
ec_verify(key, signature, data, signature_algorithm) ==
    IF ~IsInstance(signature_algorithm, "ECDSA") THEN Raise("TypeError", <<>>)
    ELSE IF /\ signature.signer = key
            /\ signature.scheme = "ECDSA"
            /\ signature.over = data
    THEN Return(None)
    ELSE Raise("InvalidSignature", <<>>)

----------------------------------------------------------------------------
(* Signature checking and self-signed classification.                      *)

\* a wrong test of the declared algorithm: PSS is taken for PKCS #1 v1.5
IsPSS_never(cert) == FALSE

\* cert.signature_algorithm_oid == x509.SignatureAlgorithmOID.RSASSA_PSS
IsPSS(cert) == cert.signature_algorithm_oid = "RSASSA_PSS"

\* a wrong type test: the hash algorithm is wrapped as ECDSA before the test
IsECDSASignature_wrapped(cert) == TRUE

\* isinstance(cert.signature_hash_algorithm, ec.ECDSA)
IsECDSASignature(cert) == IsInstance(cert.signature_hash_algorithm, "ECDSA")

check_cert_signature(cert, issuer_public_key) ==
    IF IsInstance(issuer_public_key, "RSAPublicKey")
    THEN IF IsPSS(cert)
         THEN [outcome |-> Raise("UnsupportedAlgorithm", <<>>), libcalls |-> <<>>]
         ELSE [outcome |-> rsa_verify(issuer_public_key, cert.signature,
                                      cert.tbs_certificate_bytes, "PKCS1v15",
                                      cert.signature_hash_algorithm),
               libcalls |-> <<"RSAPublicKey.verify">>]
    ELSE IF /\ IsInstance(issuer_public_key, "EllipticCurvePublicKey")
            /\ IsECDSASignature(cert)
    THEN [outcome |-> ec_verify(issuer_public_key, cert.signature,
                                cert.tbs_certificate_bytes,
                                cert.signature_hash_algorithm),
          libcalls |-> <<"EllipticCurvePublicKey.verify">>]
    ELSE [outcome |-> Raise("InvalidSignature", <<>>), libcalls |-> <<>>]

\* a wrong try/except: an unsupported algorithm is answered False
SelfsignedOutcome_guessing(checked) ==
    IF Returned(checked) THEN Return(Bool(TRUE))
    ELSE IF Raised(checked, "InvalidSignature") THEN Return(Bool(FALSE))
    ELSE IF Raised(checked, "UnsupportedAlgorithm") THEN Return(Bool(FALSE))
    ELSE checked

\* the try/except of is_selfsigned, applied to the outcome of the check
SelfsignedOutcome(checked) ==
    IF Returned(checked) THEN Return(Bool(TRUE))
    ELSE IF Raised(checked, "InvalidSignature") THEN Return(Bool(FALSE))
    ELSE IF Raised(checked, "UnsupportedAlgorithm") THEN Raise("Exception", <<>>)
    ELSE checked

is_selfsigned(cert) ==
    LET checked == check_cert_signature(cert, cert.public_key) IN
    [outcome |-> SelfsignedOutcome(checked.outcome),
     checked |-> checked.outcome,
     libcalls |-> checked.libcalls]

----------------------------------------------------------------------------
(* PEM text, parsing, authority key identifiers and fingerprints.          *)

\* the byte values key identifiers are built from
ByteValues == {0, 10, 171, 255}

KeyIdentifiers == UNION {[1..n -> ByteValues] : n \in 0..MaxKeyIdLen}

\* the Authority Key Identifier extension: absent, present without a
\* keyIdentifier field, or present with one
AuthorityKeyIdentifiers ==
    {NoAKI, [present |-> TRUE, has_key_identifier |-> FALSE, key_identifier |-> <<>>]}
    \cup {[present |-> TRUE, has_key_identifier |-> TRUE, key_identifier |-> k] :
            k \in KeyIdentifiers}

SomeKey == [type |-> "RSAPublicKey", id |-> 1]

SomeSignature == [signer |-> SomeKey, scheme |-> "PKCS1v15", over |-> "tbs"]

\* encoded certificates that differ in their Authority Key Identifier
AKIDERs ==
    {DER(SomeKey, "sha256WithRSAEncryption", SomeSignature, aki) :
        aki \in AuthorityKeyIdentifiers}

\* encoded certificates that differ in their subject key
StoredDERs ==
    {DER([type |-> "RSAPublicKey", id |-> i], "sha256WithRSAEncryption",
         SomeSignature, NoAKI) : i \in 1..NumKeys}

\* A body: a str or bytes object holding a PEM block with a label around an
\* encoded object, followed or not by a newline; label "none" is text that
\* holds no PEM block.
PEMCertificates(ders) ==
    [type : {"str"}, label : {"CERTIFICATE"}, der : ders, newline : BOOLEAN]

NotCertificates ==
    {[type |-> "str", label |-> "none", der |-> <<>>, newline |-> FALSE],
     [type |-> "str", label |-> "CERTIFICATE REQUEST", der |-> <<>>, newline |-> FALSE]}

BytesBodies(ders) ==
    [type : {"bytes"}, label : {"CERTIFICATE"}, der : ders, newline : {FALSE}]

\* x509.load_pem_x509_certificate(data, backend)
load_pem_x509_certificate(data) ==
    IF data.label = "CERTIFICATE"
    THEN Return(DecodeCertificate(data.der))
    ELSE Raise("ValueError", <<>>)

parse_certificate(body) ==
    IF body.type # "str" THEN Raise("AssertionError", <<>>)
    ELSE load_pem_x509_certificate(body)

HexDigits == <<"0","1","2","3","4","5","6","7","8","9","a","b","c","d","e","f">>

\* bytes.hex()
RECURSIVE PyHex(_)
PyHex(bytes) ==
    IF bytes = <<>> THEN <<>>
    ELSE <<HexDigits[(bytes[1] \div 16) + 1], HexDigits[(bytes[1] % 16) + 1]>>
         \o PyHex(Tail(bytes))

Str(chars) == [type |-> "str", chars |-> chars]

\* a wrong lookup: a missing extension is answered with the empty string
get_authority_key_lenient(body) ==
    LET parsed_cert == parse_certificate(body) IN
    IF ~Returned(parsed_cert) THEN parsed_cert
    ELSE IF ~parsed_cert.value.aki.present THEN Return(Str(<<>>))
    ELSE IF ~parsed_cert.value.aki.has_key_identifier THEN Raise("AttributeError", <<>>)
    ELSE Return(Str(PyHex(parsed_cert.value.aki.key_identifier)))

get_authority_key(body) ==
    LET parsed_cert == parse_certificate(body) IN
    IF ~Returned(parsed_cert) THEN parsed_cert
    ELSE IF ~parsed_cert.value.aki.present THEN Raise("ExtensionNotFound", <<>>)
    ELSE IF ~parsed_cert.value.aki.has_key_identifier THEN Raise("AttributeError", <<>>)
    ELSE Return(Str(PyHex(parsed_cert.value.aki.key_identifier)))

\* Certificate.fingerprint(hashes.SHA256()): the digest of the encoded form
fingerprint(cert) == [algorithm |-> "sha256", of |-> EncodeCertificate(cert)]

List(items) == [type |-> "list", items |-> items]

\* a wrong loop: the scan stops at the first match
RECURSIVE ScanFrom_first_match(_, _, _, _)
ScanFrom_first_match(cert, matching_certs, i, matching) ==
    IF i > Len(matching_certs) \/ matching # <<>>
    THEN [outcome |-> Return(List(matching)), matching_certs |-> matching_certs]
    ELSE LET c == matching_certs[i]
             parsed == parse_certificate(c.body)
         IN  IF ~Returned(parsed)
             THEN [outcome |-> parsed, matching_certs |-> matching_certs]
             ELSE ScanFrom_first_match(cert, matching_certs, i + 1,
                           IF fingerprint(parsed.value) = fingerprint(cert)
                           THEN Append(matching, c)
                           ELSE matching)

\* a different loop: a candidate that does not parse is skipped
RECURSIVE ScanFrom_skipping(_, _, _, _)
ScanFrom_skipping(cert, matching_certs, i, matching) ==
    IF i > Len(matching_certs)
    THEN [outcome |-> Return(List(matching)), matching_certs |-> matching_certs]
    ELSE LET c == matching_certs[i]
             parsed == parse_certificate(c.body)
         IN  ScanFrom_skipping(cert, matching_certs, i + 1,
                           IF /\ Returned(parsed)
                              /\ fingerprint(parsed.value) = fingerprint(cert)
                           THEN Append(matching, c)
                           ELSE matching)

\* the loop of find_matching_certificates_by_hash from candidate i on
RECURSIVE ScanFrom(_, _, _, _)
ScanFrom(cert, matching_certs, i, matching) ==
    IF i > Len(matching_certs)
    THEN [outcome |-> Return(List(matching)), matching_certs |-> matching_certs]
    ELSE LET c == matching_certs[i]
             parsed == parse_certificate(c.body)
         IN  IF ~Returned(parsed)
             THEN [outcome |-> parsed, matching_certs |-> matching_certs]
             ELSE ScanFrom(cert, matching_certs, i + 1,
                           IF fingerprint(parsed.value) = fingerprint(cert)
                           THEN Append(matching, c)
                           ELSE matching)

find_matching_certificates_by_hash(cert, matching_certs) ==
    ScanFrom(cert, matching_certs, 1, <<>>)

\* stored certificate records: rows with an id and a PEM body
RecordIds == {1, 2}

StoredBodies ==
    PEMCertificates(StoredDERs)
    \cup {[type |-> "str", label |-> "none", der |-> <<>>, newline |-> FALSE]}

StoredRecords == [id : RecordIds, body : StoredBodies]

CandidateLists == UNION {[1..n -> StoredRecords] : n \in 0..MaxCandidates}

----------------------------------------------------------------------------
(* The calls.                                                              *)

Init ==
    /\ op = "none"
    /\ args = <<>>
    /\ result = NoOutcome
    /\ inner = NoOutcome
    /\ libcalls = <<>>
    /\ stored = <<>>

CallGeneratePrivateKey ==
    /\ op = "none"
    /\ \E key_type \in KeyTypes, rnd \in Randomness :
           LET r == generate_private_key(key_type, rnd) IN
           /\ op' = "generate_private_key"
           /\ args' = <<key_type>>
           /\ result' = r.outcome
           /\ inner' = NoOutcome
           /\ libcalls' = r.libcalls
           /\ stored' = <<>>

CallCheckCertSignature ==
    /\ op = "none"
    /\ \E cert \in SignedCertificates, issuer_public_key \in PublicKeys :
           LET r == check_cert_signature(cert, issuer_public_key) IN
           /\ op' = "check_cert_signature"
           /\ args' = <<cert, issuer_public_key>>
           /\ result' = r.outcome
           /\ inner' = NoOutcome
           /\ libcalls' = r.libcalls
           /\ stored' = <<>>

CallIsSelfsigned ==
    /\ op = "none"
    /\ \E cert \in SignedCertificates :
           LET r == is_selfsigned(cert) IN
           /\ op' = "is_selfsigned"
           /\ args' = <<cert>>
           /\ result' = r.outcome
           /\ inner' = r.checked
           /\ libcalls' = r.libcalls
           /\ stored' = <<>>

CallGetAuthorityKey ==
    /\ op = "none"
    /\ \E body \in PEMCertificates(AKIDERs) \cup NotCertificates \cup BytesBodies(AKIDERs) :
           /\ op' = "get_authority_key"
           /\ args' = <<body>>
           /\ result' = get_authority_key(body)
           /\ inner' = NoOutcome
           /\ libcalls' = <<>>
           /\ stored' = <<>>

CallFindMatchingCertificatesByHash ==
    /\ op = "none"
    /\ \E der \in StoredDERs, matching_certs \in CandidateLists :
           LET cert == DecodeCertificate(der)
               r == find_matching_certificates_by_hash(cert, matching_certs)
           IN  /\ op' = "find_matching_certificates_by_hash"
               /\ args' = <<cert, matching_certs>>
               /\ result' = r.outcome
               /\ inner' = NoOutcome
               /\ libcalls' = <<>>
               /\ stored' = r.matching_certs

\* the call is over: the module keeps nothing from it
Done ==
    /\ op # "none"
    /\ op' = "none"
    /\ args' = <<>>
    /\ result' = NoOutcome
    /\ inner' = NoOutcome
    /\ libcalls' = <<>>
    /\ stored' = <<>>

Next ==
    \/ CallGeneratePrivateKey
    \/ CallCheckCertSignature
    \/ CallIsSelfsigned
    \/ CallGetAuthorityKey
    \/ CallFindMatchingCertificatesByHash
    \/ Done

Spec == Init /\ [][Next]_vars

----------------------------------------------------------------------------
(* Signature checking and self-signed classification: properties.          *)

SignedBy(cert, k) ==
    /\ cert.signature.signer = k
    /\ cert.signature.over = cert.tbs_certificate_bytes
    /\ cert.signature.scheme = SchemeOfOID(cert.signature_algorithm_oid)

\* C2: for a certificate that declares RSASSA-PSS and an RSA issuer key,
\* check_cert_signature raises UnsupportedAlgorithm and attempts no
\* verification, whether the signature is valid under that key or not.
C2_PSSAlwaysUnsupported ==
    (/\ op = "check_cert_signature"
     /\ args[1].signature_algorithm_oid = "RSASSA_PSS"
     /\ IsInstance(args[2], "RSAPublicKey"))
    => /\ Raised(result, "UnsupportedAlgorithm")
       /\ libcalls = <<>>

\* a PSS certificate validly signed by the issuer key was checked against it
C2_Witness ==
    /\ op = "check_cert_signature"
    /\ args[1].signature_algorithm_oid = "RSASSA_PSS"
    /\ IsInstance(args[2], "RSAPublicKey")
    /\ SignedBy(args[1], args[2])
    /\ Raised(result, "UnsupportedAlgorithm")

\* C3: check_cert_signature raises InvalidSignature, never succeeds and
\* performs no verification, when the issuer key is an elliptic-curve key
\* and the certificate's signature hash algorithm is not ECDSA-typed, and
\* when the issuer key is neither an RSA nor an elliptic-curve key.
C3_MismatchIsInvalidSignature ==
    (/\ op = "check_cert_signature"
     /\ \/ /\ IsInstance(args[2], "EllipticCurvePublicKey")
           /\ ~IsInstance(args[1].signature_hash_algorithm, "ECDSA")
        \/ /\ ~IsInstance(args[2], "RSAPublicKey")
           /\ ~IsInstance(args[2], "EllipticCurvePublicKey"))
    => /\ Raised(result, "InvalidSignature")
       /\ libcalls = <<>>

\* an ECDSA certificate validly signed by an EC key was checked against that
\* key, and the check raised InvalidSignature without verifying
C3_Witness ==
    /\ op = "check_cert_signature"
    /\ IsInstance(args[2], "EllipticCurvePublicKey")
    /\ args[1].signature_algorithm_oid = "ecdsa-with-SHA256"
    /\ SignedBy(args[1], args[2])
    /\ Raised(result, "InvalidSignature")
    /\ libcalls = <<>>

\* the certificate uses a supported scheme: PKCS #1 v1.5 RSA or ECDSA
SupportedScheme(cert) ==
    cert.signature_algorithm_oid \in {"sha256WithRSAEncryption", "ecdsa-with-SHA256"}

\* C4: for a certificate using a supported scheme (non-PSS RSA or ECDSA),
\* is_selfsigned returns True when the signature was made by the private key
\* matching the certificate's own public key and False when it was made by
\* another authority's key, for RSA keys and for elliptic-curve keys.
C4_SelfsignedIffOwnKey ==
    (/\ op = "is_selfsigned"
     /\ SupportedScheme(args[1])
     /\ \/ IsInstance(args[1].public_key, "RSAPublicKey")
        \/ IsInstance(args[1].public_key, "EllipticCurvePublicKey"))
    => /\ SignedBy(args[1], args[1].public_key) => result = Return(Bool(TRUE))
       /\ (\E k \in PublicKeys : k # args[1].public_key /\ SignedBy(args[1], k))
              => result = Return(Bool(FALSE))

----------------------------------------------------------------------------
(* Key generation: properties.                                             *)

Catalog == {CERTIFICATE_KEY_TYPES[i] : i \in 1..Len(CERTIFICATE_KEY_TYPES)}

IsKey(value) == value.type \in {"RSAPrivateKey", "EllipticCurvePrivateKey"}

\* C5: for a key_type outside CERTIFICATE_KEY_TYPES, generate_private_key
\* fails with an error whose message lists the catalog's identifiers, and
\* attempts no RSA or EC key generation.
C5_UnknownKeyTypeRejectedFirst ==
    (op = "generate_private_key" /\ args[1] \notin Catalog)
    => /\ Raised(result, "Exception")
       /\ \A k \in Catalog : Contains(k, result.value.message)
       /\ libcalls = <<>>

\* an RSA-looking key type outside the catalog was rejected before any
\* generation
C5_Witness ==
    /\ op = "generate_private_key"
    /\ args[1] = <<"R","S","A","1","0","2","4">>
    /\ Raised(result, "Exception")
    /\ libcalls = <<>>

\* the decimal digits of a natural number
RECURSIVE ToDecimal(_)
ToDecimal(n) ==
    IF n < 10 THEN <<Digits[n + 1]>>
    ELSE ToDecimal(n \div 10) \o <<Digits[(n % 10) + 1]>>

\* the characters of a curve class name
RECURSIVE Spell(_)
Spell(chars) == IF chars = <<>> THEN "" ELSE chars[1] \o Spell(Tail(chars))

\* the curve an ECC identifier names: the name after the ECC prefix, where
\* the X9.62 names prime192v1 and prime256v1 are the curves secp192r1 and
\* secp256r1
NamedCurve(key_type) ==
    LET name == Spell(SubSeq(key_type, 4, Len(key_type))) IN
    IF name = "PRIME192V1" THEN "SECP192R1"
    ELSE IF name = "PRIME256V1" THEN "SECP256R1"
    ELSE name

RSAKeyMatches(key_type, value) ==
    /\ value.type = "RSAPrivateKey"
    /\ value.public_exponent = 65537
    /\ <<"R","S","A">> \o ToDecimal(value.key_size) = key_type

ECKeyOn(value, curve) ==
    /\ value.type = "EllipticCurvePrivateKey"
    /\ value.curve = curve

\* C6 as stated: for every identifier of the catalog the key returned matches
\* it: an RSA identifier yields an RSA key with public exponent 65537 and the
\* bit size written after 'RSA', an ECC identifier yields an EC key on the
\* curve the identifier names.
C6_KeyMatchesIdentifier ==
    (op = "generate_private_key" /\ args[1] \in Catalog)
    => /\ Returned(result)
       /\ IsRSAType(args[1]) => RSAKeyMatches(args[1], result.value)
       /\ ~IsRSAType(args[1]) => ECKeyOn(result.value, NamedCurve(args[1]))

ECCSECT571R2 == <<"E","C","C","S","E","C","T","5","7","1","R","2">>

\* C6 amended: as C6, except that ECCSECT571R2 yields a key on SECT571R1.
C6_KeyMatchesIdentifierButR2 ==
    (op = "generate_private_key" /\ args[1] \in Catalog)
    => /\ Returned(result)
       /\ IsRSAType(args[1]) => RSAKeyMatches(args[1], result.value)
       /\ (~IsRSAType(args[1]) /\ args[1] # ECCSECT571R2)
              => ECKeyOn(result.value, NamedCurve(args[1]))
       /\ args[1] = ECCSECT571R2 => ECKeyOn(result.value, "SECT571R1")

\* a key was generated for ECCSECT571R2, on SECT571R1
C6_Witness ==
    /\ op = "generate_private_key"
    /\ args[1] = ECCSECT571R2
    /\ Returned(result)
    /\ result.value.curve = "SECT571R1"
    /\ libcalls = <<"ec.generate_private_key">>

----------------------------------------------------------------------------
(* Fingerprint matching and authority keys: properties.                    *)

Parses(body) == Returned(parse_certificate(body))

AllParse(records) == \A i \in 1..Len(records) : Parses(records[i].body)

\* the record's body holds a certificate with the fingerprint of cert
SameFingerprint(cert, record) ==
    /\ Parses(record.body)
    /\ fingerprint(parse_certificate(record.body).value) = fingerprint(cert)

\* the records of a list that match cert, in order and with multiplicity
MatchesOf(cert, records) ==
    LET Test(record) == SameFingerprint(cert, record) IN SelectSeq(records, Test)

\* C7: when every candidate parses, find_matching_certificates_by_hash
\* returns exactly the candidates whose body has the SHA-256 fingerprint of
\* cert, in input order and with multiplicity, the empty list when there is
\* no candidate or no match, and leaves the candidate list unchanged.
C7_ExactlyTheMatches ==
    (op = "find_matching_certificates_by_hash" /\ AllParse(args[2]))
    => /\ result = Return(List(MatchesOf(args[1], args[2])))
       /\ args[2] = <<>> => result = Return(List(<<>>))
       /\ (\A i \in 1..Len(args[2]) : ~SameFingerprint(args[1], args[2][i]))
              => result = Return(List(<<>>))
       /\ stored = args[2]

\* three candidates were scanned: the first and the last match, the same
\* record twice, the second does not
C7_Witness ==
    /\ op = "find_matching_certificates_by_hash"
    /\ Len(args[2]) = 3
    /\ AllParse(args[2])
    /\ args[2][1] = args[2][3]
    /\ ~SameFingerprint(args[1], args[2][2])
    /\ result = Return(List(<<args[2][1], args[2][3]>>))

SomeDoesNotParse(records) == \E i \in 1..Len(records) : ~Parses(records[i].body)

FirstNotParsing(records) ==
    CHOOSE i \in 1..Len(records) :
        /\ ~Parses(records[i].body)
        /\ \A j \in 1..(i - 1) : Parses(records[j].body)

\* C8 as stated: a candidate whose body does not parse does not abort the
\* scan: the matching candidates among those that parse are still returned.
C8_ParseFailureDoesNotAbort ==
    (op = "find_matching_certificates_by_hash" /\ SomeDoesNotParse(args[2]))
    => result = Return(List(MatchesOf(args[1], args[2])))

\* C8 amended: a candidate whose body does not parse aborts the scan: the
\* call raises the parse error of the first such candidate and returns no
\* matches; the candidate list is left unchanged.
C8_ParseFailureAborts ==
    (op = "find_matching_certificates_by_hash" /\ SomeDoesNotParse(args[2]))
    => /\ result = parse_certificate(args[2][FirstNotParsing(args[2])].body)
       /\ Raised(result, "ValueError")
       /\ stored = args[2]

\* a scan met a matching candidate, then one that does not parse, then
\* another matching one, and raised
C8_Witness ==
    /\ op = "find_matching_certificates_by_hash"
    /\ Len(args[2]) = 3
    /\ SameFingerprint(args[1], args[2][1])
    /\ ~Parses(args[2][2].body)
    /\ SameFingerprint(args[1], args[2][3])
    /\ Raised(result, "ValueError")

HexValue(c) == (CHOOSE i \in 1..16 : HexDigits[i] = c) - 1

\* chars is the lowercase hexadecimal encoding of bytes
IsLowerHexOf(chars, bytes) ==
    /\ Len(chars) = 2 * Len(bytes)
    /\ \A i \in 1..Len(chars) : InList(chars[i], HexDigits)
    /\ \A i \in 1..Len(bytes) :
           16 * HexValue(chars[2 * i - 1]) + HexValue(chars[2 * i]) = bytes[i]

\* C9: get_authority_key(text) returns a value only when the text parses as
\* a certificate that carries an Authority Key Identifier extension, and the
\* value is the lowercase hex encoding of its key identifier; when parsing
\* fails it fails with the parse error, and when the extension is absent it
\* fails with an extension-not-found error and returns no string.
C9_AuthorityKeyOrError ==
    op = "get_authority_key" =>
        LET parsed == parse_certificate(args[1]) IN
        /\ Returned(result) =>
               /\ Returned(parsed)
               /\ parsed.value.aki.present
               /\ result.value.type = "str"
               /\ IsLowerHexOf(result.value.chars, args[1].der[4].key_identifier)
        /\ ~Returned(parsed) => result = parsed /\ result.kind = "raise"
        /\ (Returned(parsed) /\ ~args[1].der[4].present)
               => Raised(result, "ExtensionNotFound")

\* the key of a certificate without the extension was asked for
C9_Witness ==
    /\ op = "get_authority_key"
    /\ args[1].type = "str"
    /\ args[1].label = "CERTIFICATE"
    /\ ~args[1].der[4].present
    /\ Raised(result, "ExtensionNotFound")

====
